---- MODULE Spec2Model ----
(***************************************************************************)
(* Model of python/pip_install/extract_wheels/__init__.py: the environment *)
(* configurator configure_reproducible_wheels() and the linear pipeline of *)
(* main(): configure environment, parse arguments, run "pip wheel" as a    *)
(* blocking subprocess, parse extras, glob the wheels, collect             *)
(* annotations, render one target per wheel and write requirements.bzl.    *)
(*                                                                         *)
(* Strings are TLA+ strings, environments and dicts are functions whose    *)
(* domain is the set of keys that are set, lists are sequences, paths are  *)
(* sequences of path components (an absolute path starts with "/").        *)
(***************************************************************************)
EXTENDS Naturals, Sequences, FiniteSets, TLC

VARIABLES
    pc,                 \* position of the process in main()
    outcome,            \* "running", "ok", "usage_error" or "exception"
    environ,            \* os.environ of the process
    environ0,           \* os.environ when the process started (history)
    bzl_files0,         \* bzl_files when the process started (history)
    calls,              \* number of configure_reproducible_wheels() calls made
    sys_argv,           \* the command line handed to the program
    args,               \* argparse namespace (parser.parse_args())
    deserialized_args,  \* dict(vars(args)) after deserialize_structured_args
    cwd,                \* os.getcwd() of the process
    requirements_txt,   \* the lines of the requirements file
    whl_files,          \* directory -> set of *.whl files in it
    bzl_files,          \* directory -> content of requirements.bzl in it
    pip_calls,          \* subprocess.run invocations made so far
    pip_returncode,     \* exit codes of the subprocess runs that completed
    extras,             \* requirements.parse_extras(args.requirements)
    wheels,             \* glob.glob("*.whl")
    reqs,               \* list of (whl, name) items of the reqs dict
    annotations,        \* args.annotations.collect(reqs.values())
    targets,            \* the rendered targets
    trace               \* the steps of main() performed so far, in order

vars == << pc, outcome, environ, environ0, bzl_files0, calls, sys_argv, args,
           deserialized_args, cwd, requirements_txt, whl_files, bzl_files, pip_calls,
           pip_returncode, extras, wheels, reqs, annotations, targets, trace >>

-----------------------------------------------------------------------------
(* Bounds *)

\* configure_reproducible_wheels() is called at most this often in SpecConfigure
MaxCalls == 3

\* the subprocess deposits at most this many wheel files
MaxWheels == 2

-----------------------------------------------------------------------------
(* Dicts *)

EmptyDict == [k \in {} |-> ""]

\* dict.get(key) with the default None
None == "None"

Get(d, k) == IF k \in DOMAIN d THEN d[k] ELSE None

\* d.update(other) on a copy of d: the entries of other win
Updated(d, other) ==
    [k \in DOMAIN d \cup DOMAIN other |-> IF k \in DOMAIN other THEN other[k] ELSE d[k]]

\* d[key] = value
Assigned(d, key, value) ==
    [k \in DOMAIN d \cup {key} |-> IF k = key THEN value ELSE d[k]]

-----------------------------------------------------------------------------
(* configure_reproducible_wheels *)

\* mutant: CFLAGS is assigned, not extended
ConfigureCFLAGS_Overwrites(env) == Assigned(env, "CFLAGS", "-g0")

\* lines 34-37
ConfigureCFLAGS(env) ==
    IF "CFLAGS" \in DOMAIN env
    THEN Assigned(env, "CFLAGS", env["CFLAGS"] \o " -g0")
    ELSE Assigned(env, "CFLAGS", "-g0")

\* lines 41-42
ConfigureSourceDateEpoch(env) ==
    IF "SOURCE_DATE_EPOCH" \notin DOMAIN env
    THEN Assigned(env, "SOURCE_DATE_EPOCH", "315532800")
    ELSE env

\* lines 46-47
ConfigurePythonHashSeed(env) ==
    IF "PYTHONHASHSEED" \notin DOMAIN env
    THEN Assigned(env, "PYTHONHASHSEED", "0")
    ELSE env

\* the environment one call of configure_reproducible_wheels() leaves
configure_reproducible_wheels(env) ==
    ConfigurePythonHashSeed(ConfigureSourceDateEpoch(ConfigureCFLAGS(env)))

-----------------------------------------------------------------------------
(* Inputs *)

\* "<unset>" stands for a variable that is not set when the process starts
Unset == "<unset>"

\* the environment that holds exactly the variables v sets
EnvOf(v) == [k \in {n \in DOMAIN v : v[n] # Unset} |-> v[k]]

\* the environments configure_reproducible_wheels() is checked on
AllEnvirons ==
    { EnvOf([CFLAGS |-> c, SOURCE_DATE_EPOCH |-> s, PYTHONHASHSEED |-> h, PATH |-> p]) :
        c \in {Unset, "", "-O2", "-g0", "-O2 -g0"},
        s \in {Unset, "0", "315532800"},
        h \in {Unset, "0", "random"},
        p \in {Unset, "/usr/bin"} }

\* the environments main() is started in
MainEnvirons ==
    { EnvOf([CFLAGS |-> c, SOURCE_DATE_EPOCH |-> s, PYTHONHASHSEED |-> "random", PATH |-> "/usr/bin"]) :
        c \in {Unset, "-O2"},
        s \in {Unset, "0"} }

\* the directory the program is started in (the repo root in .../external/name)
ProgramCwd == "/ext/pip"

Dirs == {ProgramCwd, "/proj"}

\* --requirements was not given
NotGiven == "<not given>"

RequirementsPaths == {"requirements.txt", "/proj/requirements.txt"}

\* a serialized (json) structured argument; valid = it decodes
Serialized(v) == [valid |-> TRUE, arg |-> v]

Malformed(v) == [valid |-> FALSE, arg |-> v]

\* the --annotations flag: not given, a file that does not decode, or a file
\* holding a map from package name to annotation
AnnotationsFlags ==
    { [given |-> FALSE, valid |-> TRUE, map |-> EmptyDict],
      [given |-> TRUE, valid |-> FALSE, map |-> EmptyDict],
      [given |-> TRUE, valid |-> TRUE, map |-> EmptyDict],
      [given |-> TRUE, valid |-> TRUE, map |-> [k \in {"a"} |-> "annotation_a"]] }

ExtraPipArgs ==
    { Malformed(<< >>), Serialized(<< >>), Serialized(<<"--no-deps", "-v">>) }

\* the user-supplied extra environment entries
Environments ==
    { Serialized(EmptyDict),
      Serialized([k \in {"CFLAGS", "FOO"} |-> IF k = "CFLAGS" THEN "-O3" ELSE "bar"]),
      Serialized([k \in {"SOURCE_DATE_EPOCH", "PYTHONHASHSEED"} |-> "1"]) }

CommandLines ==
    [ requirements : RequirementsPaths \cup {NotGiven},
      annotations : AnnotationsFlags,
      isolated : BOOLEAN,
      extra_pip_args : ExtraPipArgs,
      environment : Environments,
      pip_data_exclude : {Serialized(<<"*.pyc">>)},
      enable_implicit_namespace_pkgs : {FALSE},
      repo : {"pip"},
      repo_prefix : {"pip_"} ]

\* a line of the requirements file: a package name and its extras
Requirement(name, ex) == [name |-> name, extras |-> ex]

RequirementsFiles ==
    { << >>,
      << Requirement("a", {"x", "y"}), Requirement("b", {}) >>,
      << Requirement("a", {}), Requirement("b", {"z"}) >> }

\* the wheel files the subprocess may deposit
WheelFiles ==
    { "a-1.0-py3-none-any.whl", "a-2.0-py3-none-any.whl",
      "b-1.0-py3-none-any.whl", "bad.whl" }

\* the content of a requirements.bzl that does not exist
NoFile == [exists |-> FALSE, repo_label |-> "", targets |-> << >>]

\* a requirements.bzl left by an earlier run
OldFile == [exists |-> TRUE, repo_label |-> "@old", targets |-> << >>]

-----------------------------------------------------------------------------
(* Library functions main() calls *)

\* pathlib.Path(p).parent
Parent(p) ==
    CASE p = "requirements.txt"       -> "."
      [] p = "/proj/requirements.txt" -> "/proj"

\* pathlib.Path(p).resolve() in working directory dir, and the way a process
\* running in dir resolves the path p
Resolve(p, dir) == IF p = "." THEN dir ELSE p

\* wheel.Wheel(whl).name: the package name in the wheel's metadata
HasMetadata(whl) == whl # "bad.whl"

WheelName(whl) ==
    CASE whl \in {"a-1.0-py3-none-any.whl", "a-2.0-py3-none-any.whl"} -> "a"
      [] whl = "b-1.0-py3-none-any.whl" -> "b"

\* requirements.parse_extras: package name -> extras, for the lines with extras
parse_extras(lines) ==
    LET with == {i \in 1..Len(lines) : lines[i].extras # {}}
    IN  [n \in {lines[i].name : i \in with} |->
            lines[CHOOSE i \in with : lines[i].name = n].extras]

\* annotation.annotations_map_from_str_path: the AnnotationsMap of a file
AnnotationsMap(map) == [is_none |-> FALSE, annotations |-> map]

\* args.annotations when --annotations is not given: argparse's default, None
NoAnnotationsMap == [is_none |-> TRUE, annotations |-> EmptyDict]

\* AnnotationsMap.collect(names): the annotations of the named packages
collect(map, names) == [n \in DOMAIN map.annotations \cap names |-> map.annotations[n]]

\* arguments.deserialize_structured_args: each structured argument decoded
StructuredArgs == {"extra_pip_args", "pip_data_exclude", "environment"}

deserialize_structured_args(d) ==
    [k \in DOMAIN d |-> IF k \in StructuredArgs THEN d[k].arg ELSE d[k]]

\* bazel.extract_wheel: the build rule generated for one wheel
extract_wheel(wheel_file, extras_, exclude, namespace_pkgs, prefix, annotation_) ==
    [ wheel_file |-> wheel_file,
      extras |-> IF WheelName(wheel_file) \in DOMAIN extras_
                 THEN extras_[WheelName(wheel_file)] ELSE {},
      pip_data_exclude |-> exclude,
      enable_implicit_namespace_pkgs |-> namespace_pkgs,
      repo_prefix |-> prefix,
      annotation |-> annotation_ ]

\* bazel.generate_requirements_file_contents
generate_requirements_file_contents(repo_label, targets_) ==
    [exists |-> TRUE, repo_label |-> repo_label, targets |-> targets_]

\* the orders in which glob.glob may list the files of a directory
Listings(files) ==
    { l \in [1..Cardinality(files) -> files] :
        \A i, j \in 1..Cardinality(files) : i # j => l[i] # l[j] }

-----------------------------------------------------------------------------
(* The process *)

NoArgs ==
    [ requirements |-> NotGiven, annotations |-> NoAnnotationsMap, isolated |-> FALSE,
      extra_pip_args |-> << >>, environment |-> EmptyDict, pip_data_exclude |-> << >>,
      enable_implicit_namespace_pkgs |-> FALSE, repo |-> "", repo_prefix |-> "" ]

InitCommon ==
    /\ outcome = "running"
    /\ calls = 0
    /\ args = NoArgs
    /\ deserialized_args = NoArgs
    /\ cwd = ProgramCwd
    /\ whl_files = [d \in Dirs |-> {}]
    /\ pip_calls = << >>
    /\ pip_returncode = << >>
    /\ extras = EmptyDict
    /\ wheels = << >>
    /\ reqs = << >>
    /\ annotations = EmptyDict
    /\ targets = << >>
    /\ trace = << >>

Init ==
    /\ pc = "configure"
    /\ environ0 \in MainEnvirons
    /\ environ = environ0
    /\ sys_argv \in CommandLines
    /\ requirements_txt \in RequirementsFiles
    /\ bzl_files0 \in [Dirs -> {NoFile, OldFile}]
    /\ bzl_files = bzl_files0
    /\ InitCommon

\* an uncaught exception or sys.exit(): the process ends here
Exit(how) ==
    /\ pc' = "exited"
    /\ outcome' = how

\* line 56
Configure ==
    /\ pc = "configure"
    /\ environ' = configure_reproducible_wheels(environ)
    /\ calls' = calls + 1
    /\ trace' = Append(trace, "configure")
    /\ pc' = "parse_args"
    /\ UNCHANGED << outcome, environ0, bzl_files0, sys_argv, args, deserialized_args, cwd,
                    requirements_txt, whl_files, bzl_files, pip_calls,
                    pip_returncode, extras, wheels, reqs, annotations, targets >>

\* parser.parse_args(): the namespace of a well-formed command line
Namespace(argv) ==
    [ argv EXCEPT !.annotations = IF argv.annotations.given
                                  THEN AnnotationsMap(argv.annotations.map)
                                  ELSE NoAnnotationsMap ]

\* mutant: --requirements is not declared required=True
UsageError_RequirementsOptional(argv) == argv.annotations.given /\ ~argv.annotations.valid

\* parser.parse_args() ends the process with a usage error
UsageError(argv) ==
    \/ argv.requirements = NotGiven
    \/ argv.annotations.given /\ ~argv.annotations.valid

\* deserialize_structured_args raises on an argument that does not decode
DeserializeRaises(argv) == \E k \in StructuredArgs : ~argv[k].valid

\* lines 58-75
ParseArgs ==
    /\ pc = "parse_args"
    /\ trace' = Append(trace, "parse_args")
    /\ IF UsageError(sys_argv)
       THEN /\ Exit("usage_error")
            /\ UNCHANGED << args, deserialized_args >>
       ELSE /\ args' = Namespace(sys_argv)
            /\ IF DeserializeRaises(sys_argv)
               THEN /\ Exit("exception")
                    /\ UNCHANGED deserialized_args
               ELSE /\ deserialized_args' = deserialize_structured_args(args')
                    /\ pc' = "invoke"
                    /\ UNCHANGED outcome
    /\ UNCHANGED << environ, environ0, bzl_files0, calls, sys_argv, cwd, requirements_txt,
                    whl_files, bzl_files, pip_calls, pip_returncode, extras,
                    wheels, reqs, annotations, targets >>

\* sys.executable
Executable == "/usr/bin/python3"

\* mutant: --wheel-dir is given relative to the subprocess's working directory
pip_args_RelativeWheelDir ==
    << Executable, "-m", "pip" >>
    \o (IF args.isolated THEN << "--isolated" >> ELSE << >>)
    \o << "wheel", "-r", args.requirements >>
    \o << "--wheel-dir", "." >>
    \o deserialized_args.extra_pip_args

\* lines 80-86
pip_args ==
    << Executable, "-m", "pip" >>
    \o (IF args.isolated THEN << "--isolated" >> ELSE << >>)
    \o << "wheel", "-r", args.requirements >>
    \o << "--wheel-dir", cwd >>
    \o deserialized_args.extra_pip_args

\* mutant: the process environment is laid over the user's entries
env_ProcessWins == Updated(deserialized_args.environment, environ)

\* lines 88-89
env == Updated(environ, deserialized_args.environment)

\* line 96
subprocess_cwd == Resolve(Parent(args.requirements), cwd)

\* lines 92-97, the call: the subprocess is started and main() blocks
InvokeSubprocess ==
    /\ pc = "invoke"
    /\ pip_calls' = Append(pip_calls, [args |-> pip_args, env |-> env, cwd |-> subprocess_cwd])
    /\ trace' = Append(trace, "invoke_subprocess")
    /\ pc' = "pip_running"
    /\ UNCHANGED << outcome, environ, environ0, bzl_files0, calls, sys_argv, args,
                    deserialized_args, cwd, requirements_txt, whl_files,
                    bzl_files, pip_returncode, extras, wheels, reqs,
                    annotations, targets >>

\* the directory "pip wheel" writes into: the argument after --wheel-dir,
\* resolved in the subprocess's working directory
WheelDir(call) ==
    LET i == CHOOSE j \in 1..Len(call.args) : call.args[j] = "--wheel-dir"
    IN  Resolve(call.args[i + 1], call.cwd)

\* mutant: subprocess.run without check=True, the exit code is ignored
SubprocessReturns_Unchecked ==
    /\ pc = "pip_running"
    /\ \E returncode \in {0, 1} :
       \E built \in {w \in SUBSET WheelFiles : Cardinality(w) <= MaxWheels} :
          /\ pip_returncode' = Append(pip_returncode, returncode)
          /\ whl_files' = [whl_files EXCEPT ![WheelDir(pip_calls[Len(pip_calls)])] = @ \cup built]
          /\ pc' = "parse_extras"
    /\ trace' = Append(trace, "subprocess_returned")
    /\ UNCHANGED << outcome, environ, environ0, bzl_files0, calls, sys_argv, args,
                    deserialized_args, cwd, requirements_txt, bzl_files, pip_calls,
                    extras, wheels, reqs, annotations, targets >>

\* mutant: a failed subprocess is run again
SubprocessReturns_Retries ==
    /\ pc = "pip_running"
    /\ \E returncode \in {0, 1} :
       \E built \in {w \in SUBSET WheelFiles : Cardinality(w) <= MaxWheels} :
          /\ pip_returncode' = Append(pip_returncode, returncode)
          /\ IF returncode = 0
             THEN /\ whl_files' = [whl_files EXCEPT ![WheelDir(pip_calls[Len(pip_calls)])] = @ \cup built]
                  /\ pc' = "parse_extras"
             ELSE /\ built = {}
                  /\ pc' = "invoke"
                  /\ UNCHANGED whl_files
    /\ trace' = Append(trace, "subprocess_returned")
    /\ UNCHANGED << outcome, environ, environ0, bzl_files0, calls, sys_argv, args,
                    deserialized_args, cwd, requirements_txt, bzl_files, pip_calls,
                    extras, wheels, reqs, annotations, targets >>

\* lines 92-97, the return: "pip wheel" ends with exit code 0 having written
\* its wheels, or with another exit code, on which check=True raises
SubprocessReturns ==
    /\ pc = "pip_running"
    /\ \E returncode \in {0, 1} :
       \E built \in {w \in SUBSET WheelFiles : Cardinality(w) <= MaxWheels} :
          /\ pip_returncode' = Append(pip_returncode, returncode)
          /\ IF returncode = 0
             THEN /\ whl_files' = [whl_files EXCEPT ![WheelDir(pip_calls[Len(pip_calls)])] = @ \cup built]
                  /\ pc' = "parse_extras"
                  /\ UNCHANGED outcome
             ELSE /\ built = {}
                  /\ Exit("exception")
                  /\ UNCHANGED whl_files
    /\ trace' = Append(trace, "subprocess_returned")
    /\ UNCHANGED << environ, environ0, bzl_files0, calls, sys_argv, args, deserialized_args,
                    cwd, requirements_txt, bzl_files, pip_calls, extras, wheels,
                    reqs, annotations, targets >>

\* line 99
ParseExtras ==
    /\ pc = "parse_extras"
    /\ extras' = parse_extras(requirements_txt)
    /\ trace' = Append(trace, "parse_extras")
    /\ pc' = "locate_wheels"
    /\ UNCHANGED << outcome, environ, environ0, bzl_files0, calls, sys_argv, args,
                    deserialized_args, cwd, requirements_txt, whl_files,
                    bzl_files, pip_calls, pip_returncode, wheels, reqs,
                    annotations, targets >>

\* lines 101-104
repo_label == "@" \o args.repo

LocateWheels ==
    /\ pc = "locate_wheels"
    /\ wheels' \in Listings(whl_files[cwd])
    /\ trace' = Append(trace, "locate_wheels")
    /\ pc' = "collect_annotations"
    /\ UNCHANGED << outcome, environ, environ0, bzl_files0, calls, sys_argv, args,
                    deserialized_args, cwd, requirements_txt, whl_files,
                    bzl_files, pip_calls, pip_returncode, extras, reqs,
                    annotations, targets >>

\* line 107: the items of the dict {whl: Wheel(whl).name}, in insertion order
ReqsItems(whls) == [i \in 1..Len(whls) |-> << whls[i], WheelName(whls[i]) >>]

\* lines 107-108
CollectAnnotations ==
    /\ pc = "collect_annotations"
    /\ trace' = Append(trace, "collect_annotations")
    /\ IF \E i \in 1..Len(wheels) : ~HasMetadata(wheels[i])
       THEN /\ Exit("exception")
            /\ UNCHANGED << reqs, annotations >>
       ELSE /\ reqs' = ReqsItems(wheels)
            /\ IF args.annotations.is_none
               THEN /\ Exit("exception")
                    /\ UNCHANGED annotations
               ELSE /\ annotations' = collect(args.annotations, {reqs'[i][2] : i \in 1..Len(reqs')})
                    /\ pc' = "render"
                    /\ UNCHANGED outcome
    /\ UNCHANGED << environ, environ0, bzl_files0, calls, sys_argv, args, deserialized_args,
                    cwd, requirements_txt, whl_files, bzl_files, pip_calls,
                    pip_returncode, extras, wheels, targets >>

\* mutant: the extras index is not handed to extract_wheel
Target_WithoutExtras(whl, name) ==
    [ repo_label |-> repo_label,
      rule |-> extract_wheel(whl, EmptyDict, deserialized_args.pip_data_exclude,
                             args.enable_implicit_namespace_pkgs, args.repo_prefix,
                             Get(annotations, name)) ]

\* the target of one item of reqs, lines 111-121
Target(whl, name) ==
    [ repo_label |-> repo_label,
      rule |-> extract_wheel(whl, extras, deserialized_args.pip_data_exclude,
                             args.enable_implicit_namespace_pkgs, args.repo_prefix,
                             Get(annotations, name)) ]

\* lines 110-123
Targets == [i \in 1..Len(reqs) |-> Target(reqs[i][1], reqs[i][2])]

Render ==
    /\ pc = "render"
    /\ targets' = Targets
    /\ trace' = Append(trace, "render")
    /\ pc' = "write"
    /\ UNCHANGED << outcome, environ, environ0, bzl_files0, calls, sys_argv, args,
                    deserialized_args, cwd, requirements_txt, whl_files,
                    bzl_files, pip_calls, pip_returncode, extras, wheels, reqs,
                    annotations >>

\* lines 125-128
WriteRequirementsBzl ==
    /\ pc = "write"
    /\ bzl_files' = [bzl_files EXCEPT ![cwd] = generate_requirements_file_contents(repo_label, targets)]
    /\ trace' = Append(trace, "write")
    /\ Exit("ok")
    /\ UNCHANGED << environ, environ0, bzl_files0, calls, sys_argv, args, deserialized_args,
                    cwd, requirements_txt, whl_files, pip_calls, pip_returncode,
                    extras, wheels, reqs, annotations, targets >>

Next ==
    \/ Configure
    \/ ParseArgs
    \/ InvokeSubprocess
    \/ SubprocessReturns
    \/ ParseExtras
    \/ LocateWheels
    \/ CollectAnnotations
    \/ Render
    \/ WriteRequirementsBzl

Spec == Init /\ [][Next]_vars

\* sys.exit status of the process
ExitCode ==
    CASE outcome = "ok"          -> 0
      [] outcome = "usage_error" -> 2
      [] outcome = "exception"   -> 1
      [] OTHER                   -> 0

-----------------------------------------------------------------------------
(* configure_reproducible_wheels() on its own, called repeatedly *)

InitConfigure ==
    /\ pc = "library"
    /\ environ0 \in AllEnvirons
    /\ environ = environ0
    /\ sys_argv = NoArgs
    /\ requirements_txt = << >>
    /\ bzl_files0 = [d \in Dirs |-> NoFile]
    /\ bzl_files = bzl_files0
    /\ InitCommon

CallConfigure ==
    /\ pc = "library"
    /\ calls < MaxCalls
    /\ environ' = configure_reproducible_wheels(environ)
    /\ calls' = calls + 1
    /\ UNCHANGED << pc, outcome, environ0, bzl_files0, sys_argv, args, deserialized_args, cwd,
                    requirements_txt, whl_files, bzl_files, pip_calls,
                    pip_returncode, extras, wheels, reqs, annotations, targets,
                    trace >>

NextConfigure == CallConfigure

SpecConfigure == InitConfigure /\ [][NextConfigure]_vars

-----------------------------------------------------------------------------
(* Properties *)

Range(s) == {s[i] : i \in 1..Len(s)}

Last(s) == s[Len(s)]

SubprocessFailed == pip_returncode # << >> /\ Last(pip_returncode) # 0

SubprocessSucceeded == pip_returncode # << >> /\ Last(pip_returncode) = 0

\* the file main() leaves in its working directory
RequirementsBzl == bzl_files[cwd]

\* C1: when the subprocess exits non-zero the process ends with a failure and
\* requirements.bzl is never written: every requirements.bzl keeps its prior
\* content, and the write happens only after the subprocess returned 0.
C1_FailedSubprocessWritesNothing ==
    /\ SubprocessFailed =>
          /\ pc = "exited"
          /\ outcome # "ok"
          /\ ExitCode # 0
          /\ bzl_files = bzl_files0
          /\ "write" \notin Range(trace)
    /\ ("write" \in Range(trace) \/ bzl_files # bzl_files0) => SubprocessSucceeded

C1_Witness ==
    /\ SubprocessFailed
    /\ pc = "exited"
    /\ bzl_files0[cwd] = OldFile
    /\ RequirementsBzl = OldFile

\* C2: configure_reproducible_wheels is idempotent: after any number of calls
\* (one or more) the environment is the one a single call leaves.
C2_Idempotent == calls >= 1 => environ = configure_reproducible_wheels(environ0)

ReproducibilityVariables == {"CFLAGS", "SOURCE_DATE_EPOCH", "PYTHONHASHSEED"}

\* C3: one call of configure_reproducible_wheels changes only CFLAGS,
\* SOURCE_DATE_EPOCH and PYTHONHASHSEED; the latter two are written only when
\* unset ("315532800", "0"); CFLAGS becomes "-g0" when unset and its prior
\* value followed by " -g0" when set.
C3_OneCallChangesThreeVariables ==
    calls = 1 =>
       /\ DOMAIN environ = DOMAIN environ0 \cup ReproducibilityVariables
       /\ \A k \in DOMAIN environ0 \ ReproducibilityVariables : environ[k] = environ0[k]
       /\ environ["SOURCE_DATE_EPOCH"] =
             IF "SOURCE_DATE_EPOCH" \in DOMAIN environ0
             THEN environ0["SOURCE_DATE_EPOCH"] ELSE "315532800"
       /\ environ["PYTHONHASHSEED"] =
             IF "PYTHONHASHSEED" \in DOMAIN environ0
             THEN environ0["PYTHONHASHSEED"] ELSE "0"
       /\ environ["CFLAGS"] =
             IF "CFLAGS" \in DOMAIN environ0
             THEN environ0["CFLAGS"] \o " -g0" ELSE "-g0"
       /\ "CFLAGS" \in DOMAIN environ0 =>
             Len(environ["CFLAGS"]) = Len(environ0["CFLAGS"]) + Len(" -g0")

C3_Witness ==
    /\ calls = 1
    /\ DOMAIN environ0 = {"CFLAGS", "SOURCE_DATE_EPOCH", "PATH"}
    /\ environ0["CFLAGS"] = "-O2"
    /\ environ["CFLAGS"] = "-O2 -g0"
    /\ environ["SOURCE_DATE_EPOCH"] = "0"
    /\ environ["PYTHONHASHSEED"] = "0"

\* the targets of a file are one-to-one with the wheels of the working directory
OneTargetPerWheel(file) ==
    /\ Len(file.targets) = Cardinality(whl_files[cwd])
    /\ {file.targets[i].rule.wheel_file : i \in 1..Len(file.targets)} = whl_files[cwd]

\* C4: in every run in which the subprocess succeeds the written targets are
\* one-to-one with the *.whl files of the working directory, and a run that
\* finds no wheel still completes and writes a file with zero targets.
C4_OneTargetPerWheel ==
    /\ outcome = "ok" => OneTargetPerWheel(RequirementsBzl)
    /\ (pc = "exited" /\ SubprocessSucceeded /\ whl_files[cwd] = {}) =>
          /\ outcome = "ok"
          /\ RequirementsBzl.exists
          /\ RequirementsBzl.targets = << >>

\* C5: a package without an annotation (no entry for it, or no --annotations
\* flag at all) is rendered with a null annotation and the run does not fail:
\* it reaches the write of requirements.bzl.
C5_MissingAnnotationIsNull ==
    /\ outcome = "ok" =>
          \A i \in 1..Len(targets) :
             WheelName(targets[i].rule.wheel_file) \notin DOMAIN sys_argv.annotations.map
                => targets[i].rule.annotation = None
    /\ (pc = "exited" /\ SubprocessSucceeded /\ \A w \in whl_files[cwd] : HasMetadata(w)) =>
          /\ outcome = "ok"
          /\ "write" \in Range(trace)

\* the extras the requirements file declares for a package
DeclaredExtras(name) ==
    UNION { requirements_txt[i].extras :
              i \in {j \in 1..Len(requirements_txt) : requirements_txt[j].name = name} }

\* C6: the target of a wheel carries exactly the extras the requirements file
\* declares for the wheel's package (none when it declares none), and the
\* targets of different wheels are distinct entries.
C6_ExtrasOnTheRightTarget ==
    outcome = "ok" =>
       LET t == RequirementsBzl.targets
       IN  /\ \A i \in 1..Len(t) :
                t[i].rule.extras = DeclaredExtras(WheelName(t[i].rule.wheel_file))
           /\ \A i, j \in 1..Len(t) : i # j => t[i] # t[j]

C6_Witness ==
    /\ outcome = "ok"
    /\ requirements_txt = << Requirement("a", {"x", "y"}), Requirement("b", {}) >>
    /\ whl_files[cwd] = {"a-1.0-py3-none-any.whl", "b-1.0-py3-none-any.whl"}
    /\ Len(RequirementsBzl.targets) = 2
    /\ \E i, j \in 1..2 :
          /\ RequirementsBzl.targets[i].rule.wheel_file = "a-1.0-py3-none-any.whl"
          /\ RequirementsBzl.targets[i].rule.extras = {"x", "y"}
          /\ RequirementsBzl.targets[j].rule.wheel_file = "b-1.0-py3-none-any.whl"
          /\ RequirementsBzl.targets[j].rule.extras = {}

\* the command line lacks --requirements or names an annotations file that
\* does not decode
ArgumentsRejected ==
    \/ sys_argv.requirements = NotGiven
    \/ sys_argv.annotations.given /\ ~sys_argv.annotations.valid

ArgumentsUnusable ==
    \/ ArgumentsRejected
    \/ \E k \in StructuredArgs : ~sys_argv[k].valid

\* C7: when --requirements is missing or argument parsing otherwise fails,
\* main() ends with a non-zero exit (a usage error for a missing flag or a
\* malformed annotations file) before the subprocess is invoked and without
\* writing any file; only the environment configuration has happened.
C7_UsageErrorBeforeSubprocess ==
    ("parse_args" \in Range(trace) /\ ArgumentsUnusable) =>
       /\ pc = "exited"
       /\ ArgumentsRejected => outcome = "usage_error"
       /\ ExitCode # 0
       /\ pip_calls = << >>
       /\ bzl_files = bzl_files0
       /\ whl_files = [d \in Dirs |-> {}]
       /\ cwd = ProgramCwd
       /\ trace = << "configure", "parse_args" >>
       /\ environ = configure_reproducible_wheels(environ0)

C7_Witness ==
    /\ pc = "exited"
    /\ sys_argv.requirements = NotGiven
    /\ outcome = "usage_error"
    /\ environ # environ0
    /\ pip_calls = << >>

StepOrder ==
    << "configure", "parse_args", "invoke_subprocess", "subprocess_returned",
       "parse_extras", "locate_wheels", "collect_annotations", "render", "write" >>

\* C8: the steps of main() happen in one fixed order, none repeated: the
\* subprocess is invoked at most once, extras parsing and wheel scanning
\* happen only after it returned, and the write is the last step.
C8_StepsInFixedOrder ==
    /\ Len(trace) <= Len(StepOrder)
    /\ trace = SubSeq(StepOrder, 1, Len(trace))
    /\ calls <= 1
    /\ Len(pip_calls) <= 1
    /\ Len(pip_returncode) <= Len(pip_calls)
    /\ (extras # EmptyDict \/ wheels # << >> \/ reqs # << >> \/ targets # << >>)
          => pip_returncode = << 0 >>
    /\ "write" \in Range(trace) => pc = "exited"

C8_Witness ==
    /\ outcome = "ok"
    /\ trace = StepOrder
    /\ Len(pip_calls) = 1
    /\ wheels # << >>

\* the extra environment entries the user supplied
UserEnvironment == sys_argv.environment.arg

\* C9: the subprocess environment is the configured process environment with
\* the user's entries laid over it (the user's entry wins on a conflict,
\* every other variable keeps its process value), and the process's own
\* environment is not changed by the user's entries.
C9_SubprocessEnvironment ==
    \A i \in 1..Len(pip_calls) :
       LET e == pip_calls[i].env
       IN  /\ environ = configure_reproducible_wheels(environ0)
           /\ DOMAIN e = DOMAIN environ \cup DOMAIN UserEnvironment
           /\ \A k \in DOMAIN UserEnvironment : e[k] = UserEnvironment[k]
           /\ \A k \in DOMAIN environ \ DOMAIN UserEnvironment : e[k] = environ[k]

C9_Witness ==
    /\ pip_calls # << >>
    /\ "CFLAGS" \in DOMAIN UserEnvironment
    /\ "CFLAGS" \in DOMAIN environ0
    /\ pip_calls[1].env["CFLAGS"] = "-O3"
    /\ environ["CFLAGS"] = "-O2 -g0"
    /\ pip_calls[1].env["FOO"] = "bar"
    /\ "FOO" \notin DOMAIN environ
    /\ pip_calls[1].env["PATH"] = "/usr/bin"

\* the directory that holds the requirements file
RequirementsDir ==
    IF sys_argv.requirements = "/proj/requirements.txt" THEN "/proj" ELSE ProgramCwd

\* C10: the subprocess command line is the interpreter with "-m pip", then
\* "--isolated" iff the flag is set, then "wheel -r <requirements>", then
\* "--wheel-dir <the program's working directory>", then the user's extra
\* arguments in their order; the subprocess runs in the requirements file's
\* directory, the program's working directory never changes, and the wheels
\* land in, are scanned in and requirements.bzl is written in that directory.
C10_CommandLine ==
    /\ cwd = ProgramCwd
    /\ \A d \in Dirs \ {ProgramCwd} : whl_files[d] = {} /\ bzl_files[d] = bzl_files0[d]
    /\ pc \in {"collect_annotations", "render", "write"} => Range(wheels) = whl_files[ProgramCwd]
    /\ \A i \in 1..Len(pip_calls) :
          LET a == pip_calls[i].args
              k == IF sys_argv.isolated THEN 4 ELSE 3
          IN  /\ Len(a) = k + 5 + Len(sys_argv.extra_pip_args.arg)
              /\ SubSeq(a, 1, 3) = << Executable, "-m", "pip" >>
              /\ sys_argv.isolated => a[4] = "--isolated"
              /\ ("--isolated" \in Range(a)) <=> sys_argv.isolated
              /\ SubSeq(a, k + 1, k + 5) =
                    << "wheel", "-r", sys_argv.requirements, "--wheel-dir", ProgramCwd >>
              /\ SubSeq(a, k + 6, Len(a)) = sys_argv.extra_pip_args.arg
              /\ pip_calls[i].cwd = RequirementsDir

C10_Witness ==
    /\ outcome = "ok"
    /\ sys_argv.requirements = "/proj/requirements.txt"
    /\ sys_argv.isolated
    /\ pip_calls[1].args =
          << Executable, "-m", "pip", "--isolated", "wheel", "-r",
             "/proj/requirements.txt", "--wheel-dir", "/ext/pip", "--no-deps", "-v" >>
    /\ pip_calls[1].cwd = "/proj"
    /\ whl_files["/ext/pip"] # {}
    /\ bzl_files["/ext/pip"].exists

====
